---- MODULE Spec2Model ----
(***************************************************************************)
(* Model of src/contas_pagar.py, a Streamlit dashboard over an accounts-   *)
(* payable table.  The script is re-executed top to bottom on every user   *)
(* interaction; one action of this module is one complete execution.       *)
(*                                                                         *)
(* Dates are day ordinals (days since 1970-01-01, as pandas stores them at *)
(* day resolution); NaT is a sentinel that compares false to everything.   *)
(* Strings the code builds (period labels 'YYYY-MM') are sequences of      *)
(* character codes, so that ordering them is Python's string ordering.     *)
(***************************************************************************)
EXTENDS Integers, Sequences, FiniteSets

VARIABLES
    pc,                     \* "start" | "done" | "stopped" (st.stop())
    arquivo,                \* contas_pagar.csv on disk: [exists, linhas]
    cache,                  \* st.cache_data store of load_data_from_csv: <<>> or <<frame>>
    hoje,                   \* the clock's date read by the last execution
    mes_selecionado_global, \* selectbox value (a string)
    status_selecionados,    \* multiselect value
    tipo_selecionados,      \* multiselect value
    tipo_grafico,           \* radio value
    opcoes,                 \* the options the widgets offered in the last execution
    frames,                 \* the dataframes bound by the last execution, by name
    metricas,               \* the scalar figures computed by the last execution
    destaques,              \* per styled table rendered, the index labels of its red rows
    tela                    \* what the last execution rendered, in order

vars == <<pc, arquivo, cache, hoje, mes_selecionado_global, status_selecionados,
          tipo_selecionados, tipo_grafico, opcoes, frames, metricas, destaques, tela>>

-----------------------------------------------------------------------------
(* Bounds of the model *)

\* rows of the table in the filter specification (Spec)
MaxRows == 2
\* rows of the table in the overdue specification (SpecVencidas)
MaxRowsVencidas == 2
\* rows of the table in the term-bucket specification (SpecPrazo)
MaxRowsPrazo == 1
\* rows of the table in the monthly specification (SpecMes)
MaxRowsMes == 2

-----------------------------------------------------------------------------
(* Calendar: pandas' .dt.year, .dt.to_period('M') and date arithmetic *)

NaT == -1

DaysFromCivil(y, m, d) ==
    LET yy  == IF m <= 2 THEN y - 1 ELSE y
        era == yy \div 400
        yoe == yy - era * 400
        mp  == IF m > 2 THEN m - 3 ELSE m + 9
        doy == (153 * mp + 2) \div 5 + d - 1
        doe == yoe * 365 + yoe \div 4 - yoe \div 100 + doy
    IN  era * 146097 + doe - 719468

CivilFromDays(z) ==
    LET zz  == z + 719468
        era == zz \div 146097
        doe == zz - era * 146097
        yoe == (doe - doe \div 1460 + doe \div 36524 - doe \div 146096) \div 365
        doy == doe - (365 * yoe + yoe \div 4 - yoe \div 100)
        mp  == (5 * doy + 2) \div 153
        m   == IF mp < 10 THEN mp + 3 ELSE mp - 9
    IN  [year  |-> IF m <= 2 THEN yoe + era * 400 + 1 ELSE yoe + era * 400,
         month |-> m,
         day   |-> doy - (153 * mp + 2) \div 5 + 1]

\* Series.dt.year: NaT gives NaN, which equals no year
DtYear(d) == IF d = NaT THEN NaT ELSE CivilFromDays(d).year

\* a monthly Period is <<year, month>>; the Period of NaT is NaT
PeriodNaT == <<NaT, NaT>>

ToPeriodM(d) ==
    IF d = NaT THEN PeriodNaT
    ELSE <<CivilFromDays(d).year, CivilFromDays(d).month>>

\* str(Period): 'YYYY-MM' as character codes ('0' is 48, '-' is 45)
PeriodStr(p) ==
    <<48 + ((p[1] \div 1000) % 10), 48 + ((p[1] \div 100) % 10),
      48 + ((p[1] \div 10) % 10), 48 + (p[1] % 10), 45,
      48 + ((p[2] \div 10) % 10), 48 + (p[2] % 10)>>

\* pd.Period(label, 'M')
PeriodParse(s) ==
    <<(s[1] - 48) * 1000 + (s[2] - 48) * 100 + (s[3] - 48) * 10 + (s[4] - 48),
      (s[6] - 48) * 10 + (s[7] - 48)>>

\* Python's str <
RECURSIVE StrLess(_, _)
StrLess(a, b) ==
    IF b = <<>> THEN FALSE
    ELSE IF a = <<>> THEN TRUE
    ELSE IF Head(a) # Head(b) THEN Head(a) < Head(b)
    ELSE StrLess(Tail(a), Tail(b))

\* 'Todos os Meses'
TodosOsMeses == <<84, 111, 100, 111, 115, 32, 111, 115, 32, 77, 101, 115, 101, 115>>

\* str.lower() on the status strings of the model
Lower(s) ==
    CASE s = "Aberto"  -> "aberto"
      [] s = "ABERTO"  -> "aberto"
      [] s = "Quitado" -> "quitado"
      [] OTHER         -> s

-----------------------------------------------------------------------------
(* Frames: [cols, rows]; a row is a record of its columns plus its index *)

\* the sequence s as an explicit tuple of its elements
Seq1(s) == SelectSeq(s, LAMBDA x : TRUE)

RECURSIVE SumSeq(_)
SumSeq(s) == IF s = <<>> THEN 0 ELSE Head(s) + SumSeq(Tail(s))

Col(f, c) == Seq1([i \in DOMAIN f.rows |-> f.rows[i][c]])

\* f[mask]: boolean indexing keeps the rows, in order, with their index
Filter(f, Test(_)) == [cols |-> f.cols, rows |-> SelectSeq(f.rows, Test)]

\* f.copy()
Copy(f) == [cols |-> f.cols, rows |-> f.rows]

Indices(f) == {f.rows[i].index : i \in DOMAIN f.rows}

\* f[c] = values: a column added in place to every row of f
SetCol(f, c, Ext(_)) ==
    [cols |-> f.cols \cup {c},
     rows |-> Seq1([i \in DOMAIN f.rows |-> Ext(f.rows[i])])]

-----------------------------------------------------------------------------
(* load_data_from_csv *)

NaN == "nan"

FillNa(v, d) == IF v = NaN THEN d ELSE v

ColunasCsv == {"status_documento", "descricao_tipo_documento", "data_vencimento",
               "data_quitacao", "valor_documento", "valor_desconto", "valor_saldo"}

\* the frame read_csv and the conversions build from the file's lines
LerCsv(linhas) ==
    [cols |-> ColunasCsv \cup {"MES_ANO_VENCIMENTO", "MES_ANO_QUITACAO"},
     rows |-> Seq1([i \in 1..Len(linhas) |->
        [index                    |-> i - 1,
         status_documento         |-> linhas[i].status_documento,
         descricao_tipo_documento |-> FillNa(linhas[i].descricao_tipo_documento,
                                             "Nao Informado"),
         data_vencimento          |-> linhas[i].data_vencimento,
         data_quitacao            |-> linhas[i].data_quitacao,
         valor_documento          |-> linhas[i].valor_documento,
         valor_desconto           |-> linhas[i].valor_desconto,
         valor_saldo              |-> linhas[i].valor_saldo,
         MES_ANO_VENCIMENTO       |-> ToPeriodM(linhas[i].data_vencimento),
         MES_ANO_QUITACAO         |-> ToPeriodM(linhas[i].data_quitacao)]])]

FrameVazio == [cols |-> {}, rows |-> <<>>]

\* the missing-file branch as a function that went on without st.stop()
load_sem_stop(arq, memo) ==
    IF memo # <<>> THEN [stop |-> FALSE, erro |-> FALSE, df |-> Copy(memo[1])]
    ELSE IF ~arq.exists THEN [stop |-> FALSE, erro |-> TRUE, df |-> LerCsv(<<>>)]
    ELSE [stop |-> FALSE, erro |-> FALSE, df |-> LerCsv(arq.linhas)]

\* @st.cache_data load_data_from_csv(): the memoised value is handed out as a
\* copy; a missing file shows st.error and st.stop() ends the execution
load_data_from_csv(arq, memo) ==
    IF memo # <<>> THEN [stop |-> FALSE, erro |-> FALSE, df |-> Copy(memo[1])]
    ELSE IF ~arq.exists THEN [stop |-> TRUE, erro |-> TRUE, df |-> FrameVazio]
    ELSE [stop |-> FALSE, erro |-> FALSE, df |-> LerCsv(arq.linhas)]

-----------------------------------------------------------------------------
(* The widgets' options *)

meses_opcoes_global(df, ano_atual) ==
    {TodosOsMeses} \cup
    {PeriodStr(df.rows[i].MES_ANO_VENCIMENTO) : i \in
        {j \in DOMAIN df.rows : /\ df.rows[j].MES_ANO_VENCIMENTO # PeriodNaT
                                /\ df.rows[j].MES_ANO_VENCIMENTO[1] = ano_atual}}

status_opcoes(df) ==
    {"Todos"} \cup {df.rows[i].status_documento : i \in DOMAIN df.rows}

tipo_opcoes(df) ==
    {"Todos"} \cup {df.rows[i].descricao_tipo_documento : i \in DOMAIN df.rows}

-----------------------------------------------------------------------------
(* The global filter *)

\* Period == Period: NaT equals nothing
PeriodEq(p, q) == p # PeriodNaT /\ q # PeriodNaT /\ p = q

FiltrarMes(f, mes) ==
    IF mes # TodosOsMeses
    THEN Filter(f, LAMBDA r : \/ PeriodEq(r.MES_ANO_VENCIMENTO, PeriodParse(mes))
                              \/ PeriodEq(r.MES_ANO_QUITACAO, PeriodParse(mes)))
    ELSE f

\* the status filter applied whenever anything but exactly ['Todos'] is selected
FiltrarStatusSeNaoSoTodos(f, sel) ==
    IF sel # {"Todos"}
    THEN Filter(f, LAMBDA r : r.status_documento \in sel)
    ELSE f

FiltrarStatus(f, sel) ==
    IF "Todos" \notin sel
    THEN Filter(f, LAMBDA r : r.status_documento \in sel)
    ELSE f

FiltrarTipo(f, sel) ==
    IF "Todos" \notin sel
    THEN Filter(f, LAMBDA r : r.descricao_tipo_documento \in sel)
    ELSE f

df_filtrado_global(df, mes, st, tp) ==
    FiltrarTipo(FiltrarStatus(FiltrarMes(Copy(df), mes), st), tp)

-----------------------------------------------------------------------------
(* Overview metrics and the open-accounts table *)

get_valor_total_contas_a_pagar(df_filtered) == SumSeq(Col(df_filtered, "valor_documento"))

EhAberto(r) == Lower(r.status_documento) = "aberto"

get_valor_total_contas_a_pagar_aberto(df_filtered) ==
    SumSeq(Col(Filter(df_filtered, EhAberto), "valor_saldo"))

df_em_aberto(f) == Filter(f, EhAberto)

\* Timestamp < Timestamp: NaT compares false
DateLess(a, b) == a # NaT /\ b # NaT /\ a < b

\* the row flagged also when it falls due today
highlight_ate_hoje(row, today) ==
    /\ "Data_Vencimento" \in DOMAIN row
    /\ row.Data_Vencimento # NaT
    /\ (row.Data_Vencimento = today \/ DateLess(row.Data_Vencimento, today))

\* TRUE when the row gets the red background
highlight_overdue(row, today) ==
    /\ "Data_Vencimento" \in DOMAIN row
    /\ row.Data_Vencimento # NaT
    /\ DateLess(row.Data_Vencimento, today)

df_display_aberto(f) ==
    [cols |-> {"Data_Vencimento", "Valor_a_Pagar", "Tipo_Documento"},
     rows |-> Seq1([i \in DOMAIN f.rows |->
        [index           |-> f.rows[i].index,
         Data_Vencimento |-> f.rows[i].data_vencimento,
         Valor_a_Pagar   |-> f.rows[i].valor_saldo,
         Tipo_Documento  |-> f.rows[i].descricao_tipo_documento]])]

\* Styler.apply(highlight_overdue, axis=1): the index labels of the flagged rows
Destacadas(f, today) ==
    {f.rows[i].index : i \in {j \in DOMAIN f.rows : highlight_overdue(f.rows[j], today)}}

-----------------------------------------------------------------------------
(* Overdue open accounts *)

\* the comparison written <= instead of <
df_vencidas_ate_hoje(f, today) ==
    Filter(f, LAMBDA r : /\ EhAberto(r)
                         /\ (r.data_vencimento = today
                             \/ DateLess(r.data_vencimento, today)))

df_vencidas_em_aberto(f, today) ==
    Filter(f, LAMBDA r : EhAberto(r) /\ DateLess(r.data_vencimento, today))

df_vencidas_display(f) ==
    [cols |-> {"Data_Vencimento", "Valor_Documento", "Valor_em_Aberto", "Tipo_Documento"},
     rows |-> Seq1([i \in DOMAIN f.rows |->
        [index           |-> f.rows[i].index,
         Data_Vencimento |-> f.rows[i].data_vencimento,
         Valor_Documento |-> f.rows[i].valor_documento,
         Valor_em_Aberto |-> f.rows[i].valor_saldo,
         Tipo_Documento  |-> f.rows[i].descricao_tipo_documento]])]


-----------------------------------------------------------------------------
(* Forecast versus actual, by month *)

PeriodLess(p, q) == p[1] < q[1] \/ (p[1] = q[1] /\ p[2] < q[2])

RECURSIVE SortPeriods(_)
SortPeriods(S) ==
    IF S = {} THEN <<>>
    ELSE LET m == CHOOSE x \in S : \A y \in S : x = y \/ PeriodLess(x, y)
         IN  <<m>> \o SortPeriods(S \ {m})

RECURSIVE SortStrs(_)
SortStrs(S) ==
    IF S = {} THEN <<>>
    ELSE LET m == CHOOSE x \in S : \A y \in S : x = y \/ StrLess(x, y)
         IN  <<m>> \o SortStrs(S \ {m})

df_ano(f, ano_analise) ==
    Filter(f, LAMBDA r : \/ DtYear(r.data_vencimento) = ano_analise
                         \/ DtYear(r.data_quitacao) = ano_analise)

\* groupby drops the rows whose key is NaT and sorts the groups by key
df_previsto(ano) ==
    LET ab   == Filter(ano, EhAberto)
        keys == SortPeriods({ab.rows[i].MES_ANO_VENCIMENTO : i \in DOMAIN ab.rows}
                            \ {PeriodNaT})
    IN  [cols |-> {"Periodo", "Previsto"},
         rows |-> Seq1([i \in DOMAIN keys |->
            [Periodo  |-> PeriodStr(keys[i]),
             Previsto |-> SumSeq(Col(Filter(ab, LAMBDA r : r.MES_ANO_VENCIMENTO = keys[i]),
                                     "valor_saldo"))]])]

df_realizado(ano) ==
    LET qt   == Filter(ano, LAMBDA r : Lower(r.status_documento) = "quitado")
        keys == SortPeriods({qt.rows[i].MES_ANO_QUITACAO : i \in DOMAIN qt.rows}
                            \ {PeriodNaT})
    IN  [cols |-> {"Periodo", "Realizado"},
         rows |-> Seq1([i \in DOMAIN keys |->
            LET g == Filter(qt, LAMBDA r : r.MES_ANO_QUITACAO = keys[i])
            IN  [Periodo   |-> PeriodStr(keys[i]),
                 Realizado |-> SumSeq(Col(g, "valor_documento"))
                               - SumSeq(Col(g, "valor_desconto"))]])]

\* the value of column c in the row of f labelled k, NaN filled with 0
Lookup(f, k, c) ==
    IF \E i \in DOMAIN f.rows : f.rows[i].Periodo = k
    THEN f.rows[CHOOSE i \in DOMAIN f.rows : f.rows[i].Periodo = k][c]
    ELSE 0

Juntar(prev, real, keys) ==
    [cols |-> {"Periodo", "Previsto", "Realizado"},
     rows |-> Seq1([i \in DOMAIN keys |->
        [Periodo   |-> keys[i],
         Previsto  |-> Lookup(prev, keys[i], "Previsto"),
         Realizado |-> Lookup(real, keys[i], "Realizado")]])]

Labels(f) == {f.rows[i].Periodo : i \in DOMAIN f.rows}

\* the two series joined with how='inner'
df_comparativo_inner(prev, real) ==
    Juntar(prev, real, SortStrs(Labels(prev) \cap Labels(real)))

\* pd.merge(how='outer').fillna(0).sort_values(by='Periodo')
df_comparativo(prev, real) ==
    Juntar(prev, real, SortStrs(Labels(prev) \cup Labels(real)))

-----------------------------------------------------------------------------
(* Distribution by term *)

\* the second test written < 7
categorizar_prazo_lt7(dias) ==
    IF dias <= 0 THEN "Vencidas/Hoje"
    ELSE IF dias < 7 THEN "Ate 7 dias"
    ELSE IF 8 <= dias /\ dias <= 15 THEN "8 a 15 dias"
    ELSE IF 16 <= dias /\ dias <= 30 THEN "16 a 30 dias"
    ELSE "Mais de 30 dias"

categorizar_prazo(dias) ==
    IF dias <= 0 THEN "Vencidas/Hoje"
    ELSE IF dias <= 7 THEN "Ate 7 dias"
    ELSE IF 8 <= dias /\ dias <= 15 THEN "8 a 15 dias"
    ELSE IF 16 <= dias /\ dias <= 30 THEN "16 a 30 dias"
    ELSE "Mais de 30 dias"

ordem_faixas == <<"Vencidas/Hoje", "Ate 7 dias", "8 a 15 dias", "16 a 30 dias",
                  "Mais de 30 dias">>

\* df_filtrado_global[aberto & vencimento notna].copy()
SelecionarAbertoPrazo(s) ==
    [s EXCEPT !.df_aberto_prazo =
        Copy(Filter(s.df_filtrado_global,
                    LAMBDA r : EhAberto(r) /\ r.data_vencimento # NaT))]

\* the row r with the column dias_para_vencimento
ComDias(r, today) ==
    [index |-> r.index, status_documento |-> r.status_documento,
     descricao_tipo_documento |-> r.descricao_tipo_documento,
     data_vencimento |-> r.data_vencimento, data_quitacao |-> r.data_quitacao,
     valor_documento |-> r.valor_documento, valor_desconto |-> r.valor_desconto,
     valor_saldo |-> r.valor_saldo, MES_ANO_VENCIMENTO |-> r.MES_ANO_VENCIMENTO,
     MES_ANO_QUITACAO |-> r.MES_ANO_QUITACAO,
     dias_para_vencimento |-> IF r.data_vencimento = NaT THEN NaT
                              ELSE r.data_vencimento - today]

\* the row r with the column faixa_vencimento
ComFaixa(r, faixa) ==
    [index |-> r.index, status_documento |-> r.status_documento,
     descricao_tipo_documento |-> r.descricao_tipo_documento,
     data_vencimento |-> r.data_vencimento, data_quitacao |-> r.data_quitacao,
     valor_documento |-> r.valor_documento, valor_desconto |-> r.valor_desconto,
     valor_saldo |-> r.valor_saldo, MES_ANO_VENCIMENTO |-> r.MES_ANO_VENCIMENTO,
     MES_ANO_QUITACAO |-> r.MES_ANO_QUITACAO,
     dias_para_vencimento |-> r.dias_para_vencimento,
     faixa_vencimento |-> faixa]

\* the column assigned through a view: it lands in the loaded table as well
CalcularDiasNaOrigem(s, today) ==
    [s EXCEPT !.df = SetCol(s.df, "dias_para_vencimento",
                            LAMBDA r : ComDias(r, today)),
              !.df_aberto_prazo = SetCol(s.df_aberto_prazo, "dias_para_vencimento",
                                         LAMBDA r : ComDias(r, today))]

\* df_aberto_prazo['dias_para_vencimento'] = (data_vencimento - hoje).dt.days
CalcularDias(s, today) ==
    [s EXCEPT !.df_aberto_prazo = SetCol(s.df_aberto_prazo, "dias_para_vencimento",
                                         LAMBDA r : ComDias(r, today))]

\* df_aberto_prazo['faixa_vencimento'] = dias_para_vencimento.apply(categorizar_prazo)
CalcularFaixa(s) ==
    [s EXCEPT !.df_aberto_prazo =
        SetCol(s.df_aberto_prazo, "faixa_vencimento",
               LAMBDA r : ComFaixa(r, categorizar_prazo(r.dias_para_vencimento)))]

\* groupby('faixa_vencimento').sum(), ordered by ordem_faixas
df_prazo(f) ==
    LET presentes == SelectSeq(ordem_faixas,
                        LAMBDA x : \E i \in DOMAIN f.rows : f.rows[i].faixa_vencimento = x)
    IN  [cols |-> {"faixa_vencimento", "valor_saldo"},
         rows |-> Seq1([i \in DOMAIN presentes |->
            [faixa_vencimento |-> presentes[i],
             valor_saldo      |-> SumSeq(Col(Filter(f, LAMBDA r :
                                    r.faixa_vencimento = presentes[i]), "valor_saldo"))]])]


-----------------------------------------------------------------------------
(* One execution of the script body, lines 98-467, on the loaded table *)

\* valores_periodo.empty (lines 198-214)
valores_periodo_vazio(f, mes, ano_atual) ==
    IF mes = TodosOsMeses
    THEN ~\E i \in DOMAIN f.rows : DtYear(f.rows[i].data_vencimento) = ano_atual
    ELSE ~\E i \in DOMAIN f.rows : f.rows[i].data_vencimento # NaT

\* what an execution leaves behind, given every frame it bound
Saida(s, mes, grafico, today, ano) ==
    [frames |-> s,
     opcoes |-> [mes    |-> meses_opcoes_global(s.df, ano),
                 status |-> status_opcoes(s.df),
                 tipo   |-> tipo_opcoes(s.df)],
     metricas |->
        [valor_total_contas          |-> get_valor_total_contas_a_pagar(s.df_filtrado_global),
         valor_aberto                |->
            get_valor_total_contas_a_pagar_aberto(s.df_filtrado_global),
         valor_total_vencido         |-> SumSeq(Col(s.df_vencidas_em_aberto, "valor_saldo")),
         quantidade_titulos_vencidos |-> Len(s.df_vencidas_em_aberto.rows),
         valor_total_em_aberto       |->
            SumSeq(Col(Filter(s.df_filtrado_global, EhAberto), "valor_saldo"))],
     destaques |->
        [df_display_aberto   |-> Destacadas(s.df_display_aberto, today),
         df_vencidas_display |-> Destacadas(s.df_vencidas_display, today)],
     tela |->
        <<"filtros", "metric_total_contas", "metric_total_aberto">>
        \o (IF s.df_em_aberto.rows # <<>> THEN <<"tabela_aberto">> ELSE <<"info_aberto">>)
        \o (IF valores_periodo_vazio(s.df_filtrado_global, mes, ano)
            THEN <<"info_periodo">> ELSE <<"grafico_periodo">>)
        \o <<"metricas_vencidas">>
        \o (IF s.df_vencidas_em_aberto.rows # <<>>
            THEN <<"tabela_vencidas">> ELSE <<"info_vencidas">>)
        \o <<"grafico_comparativo", "radio_tipo_grafico">>
        \o (IF s.df_prazo.rows = <<>> THEN <<"info_prazo">>
            ELSE IF grafico = "Barras" THEN <<"grafico_prazo_barras">>
            ELSE <<"grafico_prazo_pizza">>)]

\* lines 398-430 on the frames bound so far
ScriptPrazo(s, today) == CalcularFaixa(CalcularDias(SelecionarAbertoPrazo(s), today))

AgruparPrazo(s) == [s EXCEPT !.df_prazo = df_prazo(s.df_aberto_prazo)]

\* lines 343-345, with the frames of the later sections not yet bound
ScriptJuntar(s, prev, real) ==
    [df |-> s.df, df_filtrado_global |-> s.df_filtrado_global,
     df_em_aberto |-> s.df_em_aberto, df_display_aberto |-> s.df_display_aberto,
     df_vencidas_em_aberto |-> s.df_vencidas_em_aberto,
     df_vencidas_display |-> s.df_vencidas_display,
     df_ano |-> s.df_ano, df_previsto |-> prev, df_realizado |-> real,
     df_comparativo |-> df_comparativo(prev, real),
     df_aberto_prazo |-> FrameVazio, df_prazo |-> FrameVazio]

\* lines 324-345
ScriptComparativo(s) == ScriptJuntar(s, df_previsto(s.df_ano), df_realizado(s.df_ano))

\* lines 172-307: the open and the overdue tables (built only when not empty)
ScriptTabelas(df, fg, ab, venc, ano) ==
    [df |-> df, df_filtrado_global |-> fg,
     df_em_aberto |-> ab,
     df_display_aberto |-> IF ab.rows # <<>> THEN df_display_aberto(ab) ELSE FrameVazio,
     df_vencidas_em_aberto |-> venc,
     df_vencidas_display |-> IF venc.rows # <<>> THEN df_vencidas_display(venc)
                             ELSE FrameVazio,
     df_ano |-> df_ano(fg, ano)]

ScriptFiltrado(df, fg, today, ano) ==
    AgruparPrazo(ScriptPrazo(ScriptComparativo(
        ScriptTabelas(df, fg, df_em_aberto(fg), df_vencidas_em_aberto(fg, today), ano)),
        today))

Script(df, mes, st, tp, grafico, today) ==
    Saida(ScriptFiltrado(df, df_filtrado_global(df, mes, st, tp), today,
                         CivilFromDays(today).year),
          mes, grafico, today, CivilFromDays(today).year)

-----------------------------------------------------------------------------
(* Inputs *)

\* the clock: the last day the model covers, and the day before it
Hoje0 == DaysFromCivil(2024, 1, 16)

Hojes == {Hoje0 - 1, Hoje0}

Valores == [valor_documento |-> 100, valor_desconto |-> 10, valor_saldo |-> 40]

Linha(st, tp, venc, quit) ==
    [status_documento |-> st, descricao_tipo_documento |-> tp,
     data_vencimento |-> venc, data_quitacao |-> quit,
     valor_documento |-> Valores.valor_documento,
     valor_desconto |-> Valores.valor_desconto,
     valor_saldo |-> Valores.valor_saldo]

SeqsUpTo(R, n) == UNION {[1..k -> R] : k \in 0..n}

\* rows that differ in the letter case of the status and in the type
LinhasFiltro ==
    {Linha(st, tp, Hoje0 + 20, NaT) :
        st \in {"aberto", "Aberto"}, tp \in {"NF", "Boleto"}}

\* rows that differ in status and in due date around the two days of the clock
LinhasVencidas ==
    {Linha(st, "NF", venc, NaT) :
        st \in {"Aberto", "quitado"}, venc \in {NaT, Hoje0 - 1, Hoje0}}

\* rows whose due date falls on the boundaries of the term buckets
LinhasPrazo ==
    {Linha(st, "NF", venc, NaT) :
        st \in {"Aberto", "quitado"},
        venc \in {NaT} \cup {Hoje0 + k : k \in {-1, 0, 1, 7, 8, 15, 16, 30, 31}}}

\* rows that differ in status, due month (one of last year) and settlement month
LinhasMes ==
    {Linha(st, "NF", venc, quit) :
        st \in {"aberto", "quitado"},
        venc \in {DaysFromCivil(2023, 12, 20), DaysFromCivil(2024, 2, 5)},
        quit \in {NaT, DaysFromCivil(2024, 2, 20)}}

-----------------------------------------------------------------------------
(* The state machine *)

InitCom(tabelas, dia) ==
    /\ pc = "start"
    /\ arquivo \in {[exists |-> TRUE, linhas |-> t] : t \in tabelas}
                   \cup {[exists |-> FALSE, linhas |-> <<>>]}
    /\ cache = <<>>
    /\ hoje = dia
    /\ mes_selecionado_global = TodosOsMeses
    /\ status_selecionados = {"Todos"}
    /\ tipo_selecionados = {"Todos"}
    /\ tipo_grafico = "Barras"
    /\ opcoes = [mes |-> {}, status |-> {}, tipo |-> {}]
    /\ frames = <<>>
    /\ metricas = <<>>
    /\ destaques = <<>>
    /\ tela = <<>>

Init == InitCom(SeqsUpTo(LinhasFiltro, MaxRows), Hoje0)

InitVencidas == InitCom(SeqsUpTo(LinhasVencidas, MaxRowsVencidas), Hoje0 - 1)

InitPrazo == InitCom(SeqsUpTo(LinhasPrazo, MaxRowsPrazo), Hoje0)

InitMes == InitCom(SeqsUpTo(LinhasMes, MaxRowsMes), Hoje0)

\* one execution of the script with the given widget values
Executar(mes, st, tp, grafico) ==
    \E today \in {h \in Hojes : h >= hoje} :
    \E r \in {load_data_from_csv(arquivo, cache)} :
        /\ hoje' = today
        /\ arquivo' = arquivo
        /\ mes_selecionado_global' = mes
        /\ status_selecionados' = st
        /\ tipo_selecionados' = tp
        /\ tipo_grafico' = grafico
        /\ IF r.stop
           THEN /\ pc' = "stopped"
                /\ cache' = cache
                /\ opcoes' = [mes |-> {}, status |-> {}, tipo |-> {}]
                /\ frames' = <<>>
                /\ metricas' = <<>>
                /\ destaques' = <<>>
                /\ tela' = <<"st.error">>
           ELSE \E out \in {Script(r.df, mes, st, tp, grafico, today)} :
                /\ pc' = "done"
                /\ cache' = IF cache = <<>> THEN <<Copy(r.df)>> ELSE cache
                /\ opcoes' = out.opcoes
                /\ frames' = out.frames
                /\ metricas' = out.metricas
                /\ destaques' = out.destaques
                /\ tela' = (IF r.erro THEN <<"st.error">> ELSE <<>>) \o out.tela

\* the page is opened: first execution, every widget at its default
Abrir ==
    /\ pc = "start"
    /\ Executar(TodosOsMeses, {"Todos"}, {"Todos"}, "Barras")

\* the page is reloaded: a new session with the widgets' defaults
Recarregar ==
    /\ pc \in {"done", "stopped"}
    /\ Executar(TodosOsMeses, {"Todos"}, {"Todos"}, "Barras")

SelecionarMes ==
    /\ pc = "done"
    /\ \E m \in opcoes.mes :
          Executar(m, status_selecionados, tipo_selecionados, tipo_grafico)

\* a multiselect changes by one option at a time: o is added or removed
Alternar(sel, o) == IF o \in sel THEN sel \ {o} ELSE sel \cup {o}

SelecionarStatus ==
    /\ pc = "done"
    /\ \E o \in opcoes.status :
          Executar(mes_selecionado_global, Alternar(status_selecionados, o),
                   tipo_selecionados, tipo_grafico)

SelecionarTipo ==
    /\ pc = "done"
    /\ \E o \in opcoes.tipo :
          Executar(mes_selecionado_global, status_selecionados,
                   Alternar(tipo_selecionados, o), tipo_grafico)

SelecionarGrafico ==
    /\ pc = "done"
    /\ \E g \in {"Barras", "Pizza"} :
          Executar(mes_selecionado_global, status_selecionados, tipo_selecionados, g)

Next ==
    \/ Abrir
    \/ Recarregar
    \/ SelecionarMes
    \/ SelecionarStatus
    \/ SelecionarTipo
    \/ SelecionarGrafico

Spec == Init /\ [][Next]_vars

SpecVencidas == InitVencidas /\ [][Next]_vars

SpecPrazo == InitPrazo /\ [][Next]_vars

SpecMes == InitMes /\ [][Next]_vars


-----------------------------------------------------------------------------
(* Vocabulary of the properties, independent of the operators above *)

\* the table load_data_from_csv returned on the first execution
Carregada == cache[1]

\* the row of the loaded table with index label k
Registro(k) == Carregada.rows[k + 1]

StatusOpen(st) == st \in {"aberto", "Aberto", "ABERTO"}

StatusSettled(st) == st \in {"quitado", "Quitado", "QUITADO"}

\* is_overdue(record, today) of the specification
IsOverdue(r, today) ==
    /\ StatusOpen(r.status_documento)
    /\ r.data_vencimento # NaT
    /\ r.data_vencimento < today

\* the sum of f[x] over the domain of f
RECURSIVE SumFn(_)
SumFn(f) ==
    IF DOMAIN f = {} THEN 0
    ELSE LET x == CHOOSE y \in DOMAIN f : TRUE
         IN  f[x] + SumFn([y \in DOMAIN f \ {x} |-> f[y]])

\* the positions of the rows of frame f that satisfy P
Onde(f, P(_)) == {i \in DOMAIN f.rows : P(f.rows[i])}

\* the sum of V(row) over the rows of f that satisfy P
SomaOnde(f, P(_), V(_)) == SumFn([i \in Onde(f, P) |-> V(f.rows[i])])

IndicesOnde(f, P(_)) == {f.rows[i].index : i \in Onde(f, P)}

-----------------------------------------------------------------------------
(* C1: a record of the filtered set is counted as overdue -- it is in the    *)
(* overdue frame, the overdue count, the overdue total and, when the detail  *)
(* table is rendered, in the detail table -- if and only if its status is    *)
(* open in any letter case, its due date is known and its due date is        *)
(* strictly before today; a record that is not open, or that falls due       *)
(* today, is not.                                                            *)

\* C1: counted as overdue iff open (any case), due date known and before today
C1_OverdueIffOpenAndPastDue ==
    pc = "done" =>
        LET fg   == frames.df_filtrado_global
            late == IndicesOnde(fg, LAMBDA r : IsOverdue(r, hoje))
        IN  /\ Indices(frames.df_vencidas_em_aberto) = late
            /\ Len(frames.df_vencidas_em_aberto.rows) = Cardinality(late)
            /\ metricas.quantidade_titulos_vencidos = Cardinality(late)
            /\ metricas.valor_total_vencido =
                  SomaOnde(fg, LAMBDA r : IsOverdue(r, hoje), LAMBDA r : r.valor_saldo)
            /\ Indices(frames.df_vencidas_display) = late
            /\ ("tabela_vencidas" \in {tela[i] : i \in DOMAIN tela}) <=> (late # {})

\* an open record past due is counted while an open record due today is not
C1_Witness ==
    /\ pc = "done"
    /\ metricas.quantidade_titulos_vencidos = 1
    /\ \E i \in DOMAIN frames.df_filtrado_global.rows :
          /\ StatusOpen(frames.df_filtrado_global.rows[i].status_documento)
          /\ frames.df_filtrado_global.rows[i].data_vencimento = hoje
    /\ \E i \in DOMAIN frames.df_filtrado_global.rows :
          IsOverdue(frames.df_filtrado_global.rows[i], hoje)


-----------------------------------------------------------------------------
(* C2: the term buckets are total and disjoint.  The bucketed frame holds    *)
(* exactly the filtered records that are open with a known due date; each of *)
(* them carries days_remaining = due_date - today and the one bucket whose   *)
(* documented range contains that number (<= 0, 1..7, 8..15, 16..30, > 30),  *)
(* so 0, 7, 8, 15, 16, 30 and 31 land in the documented buckets.             *)

\* the documented range of each bucket
NaFaixa(faixa, d) ==
    CASE faixa = "Vencidas/Hoje"   -> d <= 0
      [] faixa = "Ate 7 dias"      -> 1 <= d /\ d <= 7
      [] faixa = "8 a 15 dias"     -> 8 <= d /\ d <= 15
      [] faixa = "16 a 30 dias"    -> 16 <= d /\ d <= 30
      [] faixa = "Mais de 30 dias" -> d > 30
      [] OTHER                     -> FALSE

Faixas == {"Vencidas/Hoje", "Ate 7 dias", "8 a 15 dias", "16 a 30 dias", "Mais de 30 dias"}

-----------------------------------------------------------------------------
(* C10: in the open-accounts table and in the overdue detail table a row is  *)
(* red if and only if its record is overdue: open, with a known due date     *)
(* strictly before today.  A row due today, later, or with no due date is    *)
(* never red.                                                                *)

\* C10: a row of a styled table is red iff its record is overdue
C10_HighlightIffOverdue ==
    pc = "done" =>
        \A t \in {"df_display_aberto", "df_vencidas_display"} :
            /\ destaques[t] \subseteq Indices(frames[t])
            /\ \A k \in Indices(frames[t]) :
                  (k \in destaques[t]) <=> IsOverdue(Registro(k), hoje)

\* the open-accounts table shows a red row and a row due today that is not red
C10_Witness ==
    /\ pc = "done"
    /\ destaques.df_display_aberto # {}
    /\ \E i \in DOMAIN frames.df_display_aberto.rows :
          /\ frames.df_display_aberto.rows[i].Data_Vencimento = hoje
          /\ frames.df_display_aberto.rows[i].index \notin destaques.df_display_aberto


-----------------------------------------------------------------------------
(* C3: with no 'Todos' in either selection (and every month shown), the      *)
(* filtered set is exactly the loaded records whose status equals a selected *)
(* status regardless of letter case and whose document type is selected; a   *)
(* record whose status differs from a selected one only in case is kept.     *)

SameIgnoringCase(a, b) ==
    \/ a = b
    \/ StatusOpen(a) /\ StatusOpen(b)
    \/ StatusSettled(a) /\ StatusSettled(b)

\* C3: the status filter keeps a record whatever the letter case of its status
C3_StatusFilterIgnoresCase ==
    (/\ pc = "done"
     /\ mes_selecionado_global = TodosOsMeses
     /\ "Todos" \notin status_selecionados
     /\ "Todos" \notin tipo_selecionados)
    => Indices(frames.df_filtrado_global) =
          IndicesOnde(Carregada,
              LAMBDA r : /\ \E x \in status_selecionados :
                                SameIgnoringCase(r.status_documento, x)
                         /\ r.descricao_tipo_documento \in tipo_selecionados)

-----------------------------------------------------------------------------
(* C4: when nothing at all is selected on a dimension (status or document    *)
(* type), that dimension does not filter: the filtered set holds every       *)
(* loaded record that passes the other dimension (every month shown).        *)

PassaStatus(r, sel) ==
    \/ sel = {}
    \/ "Todos" \in sel
    \/ \E x \in sel : SameIgnoringCase(r.status_documento, x)

PassaTipo(r, sel) ==
    \/ sel = {}
    \/ "Todos" \in sel
    \/ r.descricao_tipo_documento \in sel

\* C4: an empty selection on a dimension does not filter on it
C4_EmptySelectionFiltersNothing ==
    (/\ pc = "done"
     /\ mes_selecionado_global = TodosOsMeses
     /\ (status_selecionados = {} \/ tipo_selecionados = {}))
    => Indices(frames.df_filtrado_global) =
          IndicesOnde(Carregada, LAMBDA r : /\ PassaStatus(r, status_selecionados)
                                            /\ PassaTipo(r, tipo_selecionados))

-----------------------------------------------------------------------------
(* C5: round trip.  When both selections contain 'Todos' and no month is     *)
(* selected, the filtered set is the loaded table: same columns, same rows,  *)
(* same order, same content, whatever else is selected beside 'Todos'.       *)

\* C5: with 'Todos' in both selections the filtered set is the loaded table
C5_TodosReturnsLoadedTable ==
    (/\ pc = "done"
     /\ mes_selecionado_global = TodosOsMeses
     /\ "Todos" \in status_selecionados
     /\ "Todos" \in tipo_selecionados)
    => /\ frames.df_filtrado_global = Carregada
       /\ Carregada = LerCsv(arquivo.linhas)

\* 'Todos' is selected beside a status and a type that some loaded row lacks
C5_Witness ==
    /\ pc = "done"
    /\ mes_selecionado_global = TodosOsMeses
    /\ {"Todos", "aberto"} \subseteq status_selecionados
    /\ {"Todos", "NF"} \subseteq tipo_selecionados
    /\ \E i \in DOMAIN Carregada.rows :
          /\ Carregada.rows[i].status_documento \notin status_selecionados
          /\ Carregada.rows[i].descricao_tipo_documento \notin tipo_selecionados
    /\ Len(frames.df_filtrado_global.rows) = MaxRows

-----------------------------------------------------------------------------
(* C9: when the source file is missing, the execution ends in the fatal      *)
(* state with the error message on screen and nothing else: no table is      *)
(* loaded or memoised, no filter applied, no frame, metric, table or chart   *)
(* computed or rendered.                                                     *)

\* C9: a missing file ends the execution with the error and nothing computed
C9_MissingFileStopsBeforeAnything ==
    (~arquivo.exists /\ pc # "start")
    => /\ pc = "stopped"
       /\ tela = <<"st.error">>
       /\ cache = <<>>
       /\ DOMAIN frames = {}
       /\ DOMAIN metricas = {}
       /\ DOMAIN destaques = {}
       /\ opcoes = [mes |-> {}, status |-> {}, tipo |-> {}]

\* the page was opened with the file missing
C9_Witness == ~arquivo.exists /\ pc = "stopped" /\ tela = <<"st.error">>


-----------------------------------------------------------------------------
(* C6: with a reference month selected (and no status or type filtering),    *)
(* the open-balance figure is the sum of balance_value over exactly the      *)
(* loaded records that are open and whose due date falls in that month;      *)
(* the settlement date of an open record plays no part.                      *)

\* C6: the month's open balance sums the open records due in that month
C6_OpenBalanceOfMonthByDueDate ==
    (/\ pc = "done"
     /\ mes_selecionado_global # TodosOsMeses
     /\ "Todos" \in status_selecionados
     /\ "Todos" \in tipo_selecionados)
    => metricas.valor_aberto =
          SomaOnde(Carregada,
                   LAMBDA r : /\ StatusOpen(r.status_documento)
                              /\ r.data_vencimento # NaT
                              /\ PeriodStr(ToPeriodM(r.data_vencimento))
                                    = mes_selecionado_global,
                   LAMBDA r : r.valor_saldo)

-----------------------------------------------------------------------------
(* C7: forecast versus actual.  Over the year-restricted filtered set (due   *)
(* year or settlement year is the analysis year), the comparison has exactly *)
(* one row for every month in which an open record falls due or a settled    *)
(* record was settled; its forecast is the sum of balance_value of the open  *)
(* records due in that month, its actual the sum of document_value minus     *)
(* discount_value of the records settled in that month, a missing side is 0, *)
(* and the rows are in ascending order of period.                            *)

NoAno(r, ano) ==
    \/ r.data_vencimento # NaT /\ CivilFromDays(r.data_vencimento).year = ano
    \/ r.data_quitacao # NaT /\ CivilFromDays(r.data_quitacao).year = ano

PrevistoEm(r, ano, label) ==
    /\ NoAno(r, ano)
    /\ StatusOpen(r.status_documento)
    /\ r.data_vencimento # NaT
    /\ PeriodStr(ToPeriodM(r.data_vencimento)) = label

RealizadoEm(r, ano, label) ==
    /\ NoAno(r, ano)
    /\ StatusSettled(r.status_documento)
    /\ r.data_quitacao # NaT
    /\ PeriodStr(ToPeriodM(r.data_quitacao)) = label

MesesDe(f, ano) ==
    {PeriodStr(ToPeriodM(f.rows[i].data_vencimento)) :
        i \in Onde(f, LAMBDA r : /\ NoAno(r, ano) /\ StatusOpen(r.status_documento)
                                 /\ r.data_vencimento # NaT)}
    \cup
    {PeriodStr(ToPeriodM(f.rows[i].data_quitacao)) :
        i \in Onde(f, LAMBDA r : /\ NoAno(r, ano) /\ StatusSettled(r.status_documento)
                                 /\ r.data_quitacao # NaT)}

\* C7: the comparison is the outer join of the two monthly sums, in period order
C7_ComparisonIsOuterJoinOfMonthlySums ==
    pc = "done" =>
        LET fg  == frames.df_filtrado_global
            cmp == frames.df_comparativo
            ano == CivilFromDays(hoje).year
        IN  /\ {cmp.rows[i].Periodo : i \in DOMAIN cmp.rows} = MesesDe(fg, ano)
            /\ Len(cmp.rows) = Cardinality(MesesDe(fg, ano))
            /\ \A i \in DOMAIN cmp.rows :
                  /\ cmp.rows[i].Previsto =
                        SomaOnde(fg, LAMBDA r : PrevistoEm(r, ano, cmp.rows[i].Periodo),
                                 LAMBDA r : r.valor_saldo)
                  /\ cmp.rows[i].Realizado =
                        SomaOnde(fg, LAMBDA r : RealizadoEm(r, ano, cmp.rows[i].Periodo),
                                 LAMBDA r : r.valor_documento - r.valor_desconto)
            /\ \A i, j \in DOMAIN cmp.rows :
                  i < j => PeriodLess(PeriodParse(cmp.rows[i].Periodo),
                                      PeriodParse(cmp.rows[j].Periodo))

\* one month has only a forecast, a later month only an actual amount
C7_Witness ==
    /\ pc = "done"
    /\ Len(frames.df_comparativo.rows) = 2
    /\ frames.df_comparativo.rows[1].Previsto > 0
    /\ frames.df_comparativo.rows[1].Realizado = 0
    /\ frames.df_comparativo.rows[2].Previsto = 0
    /\ frames.df_comparativo.rows[2].Realizado > 0

-----------------------------------------------------------------------------
(* C8: once loaded, the table never changes.  After every execution the      *)
(* frame bound to df is still what load_data_from_csv built from the file:   *)
(* no row added, removed, reordered or modified, no column added; the        *)
(* memoised table is the same; the derived views carry their own columns.    *)

\* C8: every execution leaves the loaded table as it was loaded
C8_LoadedTableUnchanged ==
    pc = "done" =>
        /\ frames.df = LerCsv(arquivo.linhas)
        /\ cache = <<LerCsv(arquivo.linhas)>>
        /\ frames.df.cols = ColunasCsv \cup {"MES_ANO_VENCIMENTO", "MES_ANO_QUITACAO"}

\* a month and the pie chart are selected, the filter dropped a row, and the
\* bucketed view carries the two columns added in place
C8_Witness ==
    /\ pc = "done"
    /\ mes_selecionado_global # TodosOsMeses
    /\ tipo_grafico = "Pizza"
    /\ Len(frames.df_filtrado_global.rows) < Len(frames.df.rows)
    /\ frames.df_aberto_prazo.rows # <<>>
    /\ {"dias_para_vencimento", "faixa_vencimento"} \subseteq frames.df_aberto_prazo.cols
    /\ frames.df_comparativo.rows # <<>>

-----------------------------------------------------------------------------
(* C11: the months of the comparison belong to the analysis year.  df_ano    *)
(* keeps a record when its due date OR its settlement date is in the year of *)
(* analysis, df_previsto then groups by due month and df_realizado by        *)
(* settlement month: the statement says that no row of df_comparativo is     *)
(* labelled with a month of another year.                                    *)

\* C11: every row of the comparison is a month of the analysis year
C11_ComparisonMonthsInAnalysisYear ==
    pc = "done" =>
        \A i \in DOMAIN frames.df_comparativo.rows :
            PeriodParse(frames.df_comparativo.rows[i].Periodo)[1]
                = CivilFromDays(hoje).year


====
